---- MODULE Spec2Model ----
(***************************************************************************)
(* GP interpolation in 1D with a custom kernel                             *)
(* (examples/gpmp_example05_1d_custom_kernel.py).                          *)
(*                                                                         *)
(* Arrays are functions on 0..n-1 (numpy indexing).  Point sets live in a  *)
(* heap of objects, so that `y is x` is equality of object ids while two   *)
(* objects may hold equal values.  Real numbers are exact: covariances are *)
(* fixed-point integers with One standing for 1.0, and the results of the    *)
(* linear solve are rationals <<numerator, denominator>> in lowest terms.  *)
(***************************************************************************)
EXTENDS Integers, Sequences, FiniteSets

\* ---------------------------------------------------------------- bounds

\* grid size and sample size of the prediction model (nt, ni of the script)
Nt == 4
Ni == 2
\* grid size of the data-generation model, where ni keeps its value
NtGen == 5

\* ------------------------------------------------------- program constants

dim == 1
ni == 5
p == 2
\* the fixed-point number 1.0
One == 64
\* covparam, in base-2 logarithms: sigma2 = 2^-2 = 0.5^2, invrho = 2^0
LogSigma2 == -2
LogInvRho == 0
\* 100 * gp.eps: one unit of the fixed-point format
nugget == 1

None == "None"
ObjIds == {"xt", "xi", "xc"}

\* ----------------------------------------------------------- array helpers

Size(a) == Cardinality(DOMAIN a)
Abs(v) == IF v < 0 THEN -v ELSE v
EmptyArr == [k \in {} |-> 0]

\* the array f with its entries computed once (the same function, tabulated)
asarray(f) == CHOOSE g \in {f} : g = f

RECURSIVE SumTo(_, _)
SumTo(f, n) == IF n = 0 THEN 0 ELSE f[n - 1] + SumTo(f, n - 1)

RECURSIVE GCD(_, _)
GCD(a, b) == IF b = 0 THEN a ELSE GCD(b, a % b)

\* the rational n/d (d # 0) in lowest terms with a positive denominator
Rat(n, d) ==
    LET g == GCD(Abs(n), Abs(d))
        s == IF d < 0 THEN -1 ELSE 1
    IN  <<(s * n) \div g, (s * d) \div g>>

RatLeq(a, b) == a[1] * b[2] <= b[1] * a[2]
RatInt(v) == <<v, 1>>

\* --------------------------------------------------------- numpy / jax / gp

\* product of two fixed-point numbers
Mul(a, b) == (a * b) \div One

RECURSIVE Pow2(_)
Pow2(e) == IF e = 0 THEN 1 ELSE 2 * Pow2(e - 1)

\* jnp.exp, on base-2 logarithms
Exp(v) == IF v >= 0 THEN One * Pow2(v) ELSE One \div Pow2(-v)

ones_vec(n) == [i \in 0 .. (n - 1) |-> One]
ones_mat(n, q) == [i \in 0 .. (n - 1) |-> [j \in 0 .. (q - 1) |-> One]]
eye(n) == [i \in 0 .. (n - 1) |-> [j \in 0 .. (n - 1) |-> IF i = j THEN One ELSE 0]]

\* gp.misc.designs.regulargrid(dim, nt, box): nt equally spaced points of
\* the box, counted in grid steps from its lower end
regulargrid(d, n, box) == [k \in 0 .. (n - 1) |-> k * One]

\* gp.misc.testfunctions.twobumps(x): a fixed function of the position
twobumps(x) == [k \in DOMAIN x |-> ((x[k] \div One) * (x[k] \div One)) % 5]

\* gp.kernel.scale(x, invrho)
scale(x, invrho) == [k \in DOMAIN x |-> Mul(x[k], invrho)]

\* gp.kernel.distance(x, y): the matrix of distances
distance(x, y) == [i \in DOMAIN x |-> [j \in DOMAIN y |-> Abs(x[i] - y[j])]]

\* gp.kernel.distance_pairwise(x, y): distances of aligned pairs
distance_pairwise(x, y) == [i \in DOMAIN x |-> Abs(x[i] - y[i])]

\* Matern correlation of regularity q + 1/2 at distance h: 1 at h = 0,
\* decreasing to 0 (tabulated per grid step for q = 2, the example's p)
maternp(q, h) ==
    IF q # 2 THEN (IF h = 0 THEN One ELSE 0)
    ELSE CASE h = 0           -> One
           [] h <= One        -> (3 * One) \div 4
           [] h <= 2 * One    -> (3 * One) \div 8
           [] h <= 3 * One    -> One \div 8
           [] OTHER           -> 0

\* gp.kernel.maternp_kernel(p, h), elementwise on a vector / on a matrix
maternp_kernel_vec(q, h) == [i \in DOMAIN h |-> maternp(q, h[i])]
maternp_kernel(q, h) == [i \in DOMAIN h |-> [j \in DOMAIN h[i] |-> maternp(q, h[i][j])]]

\* ------------------------------------------------------ model specification

zero_mean(x, param) == [isNone |-> TRUE, val |-> EmptyArr]

\* a constant mean that returns no basis
constant_mean_none(x, param) == [isNone |-> TRUE, val |-> EmptyArr]

constant_mean(x, param) == [isNone |-> FALSE, val |-> ones_mat(Size(x), 1)]

\* the pairwise branch returning the diagonal of the matrix, nugget included
kernel_ii_or_tt_diag(x, param, pairwise) ==
    LET sigma2 == Exp(param[0])
        invrho == Exp(param[1])
        xs == scale(x, invrho)
        M  == maternp_kernel(p, distance(xs, xs))
    IN  IF pairwise
        THEN [i \in DOMAIN x |-> Mul(sigma2, M[i][i]) + Mul(nugget, eye(Size(x))[i][i])]
        ELSE [i \in DOMAIN x |-> [j \in DOMAIN x |->
                 Mul(sigma2, M[i][j]) + Mul(nugget, eye(Size(x))[i][j])]]

\* the nugget added on and above the diagonal
kernel_ii_or_tt_triu(x, param, pairwise) ==
    LET sigma2 == Exp(param[0])
        invrho == Exp(param[1])
        xs == scale(x, invrho)
        M  == maternp_kernel(p, distance(xs, xs))
    IN  IF pairwise
        THEN [i \in DOMAIN x |-> Mul(sigma2, ones_vec(Size(x))[i])]
        ELSE [i \in DOMAIN x |-> [j \in DOMAIN x |->
                 Mul(sigma2, M[i][j]) + (IF i <= j THEN nugget ELSE 0)]]

\* the pairwise branch without the factor sigma2
kernel_ii_or_tt_unit(x, param, pairwise) ==
    LET sigma2 == Exp(param[0])
        invrho == Exp(param[1])
        xs == scale(x, invrho)
        M  == maternp_kernel(p, distance(xs, xs))
    IN  IF pairwise
        THEN [i \in DOMAIN x |-> ones_vec(Size(x))[i]]
        ELSE [i \in DOMAIN x |-> [j \in DOMAIN x |->
                 Mul(sigma2, M[i][j]) + Mul(nugget, eye(Size(x))[i][j])]]

\* Covariance between observations or predictands at x
kernel_ii_or_tt(x, param, pairwise) ==
    LET sigma2 == Exp(param[0])
        invrho == Exp(param[1])
    IN  IF pairwise
        THEN [i \in DOMAIN x |-> Mul(sigma2, ones_vec(Size(x))[i])]
        ELSE LET xs == scale(x, invrho)
                 D  == distance(xs, xs)
                 M  == maternp_kernel(p, D)
             IN  [i \in DOMAIN x |-> [j \in DOMAIN x |->
                     Mul(sigma2, M[i][j]) + Mul(nugget, eye(Size(D))[i][j])]]

\* the nugget added wherever two points coincide
kernel_it_nugget(x, y, param, pairwise) ==
    LET sigma2 == Exp(param[0])
        invrho == Exp(param[1])
        xs == scale(x, invrho)
        ys == scale(y, invrho)
    IN  IF pairwise
        THEN [i \in DOMAIN x |->
                 Mul(sigma2, maternp(p, Abs(xs[i] - ys[i])))
                 + (IF xs[i] = ys[i] THEN nugget ELSE 0)]
        ELSE [i \in DOMAIN x |-> [j \in DOMAIN y |->
                 Mul(sigma2, maternp(p, Abs(xs[i] - ys[j])))
                 + (IF xs[i] = ys[j] THEN nugget ELSE 0)]]

\* Covariance between observations and prediction points
kernel_it(x, y, param, pairwise) ==
    LET sigma2 == Exp(param[0])
        invrho == Exp(param[1])
        xs == scale(x, invrho)
        ys == scale(y, invrho)
    IN  IF pairwise
        THEN LET D == distance_pairwise(xs, ys)
             IN  [i \in DOMAIN D |-> Mul(sigma2, maternp_kernel_vec(p, D)[i])]
        ELSE LET D == distance(xs, ys)
                 M == maternp_kernel(p, D)
             IN  [i \in DOMAIN D |-> [j \in DOMAIN D[i] |-> Mul(sigma2, M[i][j])]]

\* ------------------------------------------------------------------ state

VARIABLES
    pc,         \* position of the script
    heap,       \* object id -> point set (xt, xi, and xc: a copy of xi)
    zt, zi,     \* values on the grid, observed values
    ind,        \* the indices drawn by generate_data
    mean, meanparam, covparam,   \* the model
    ret,        \* the last kernel / mean call and what it returned
    pred,       \* the last predict call and what it returned
    zpm, zpv    \* the script's prediction results

vars == <<pc, heap, zt, zi, ind, mean, meanparam, covparam, ret, pred, zpm, zpv>>

\* the draw with replace=True
Choice_replace(n, k) == [0 .. (k - 1) -> 0 .. (n - 1)]

\* np.random.choice(n, k, replace=False): every ordered draw of k distinct
\* indices of 0..n-1
Choice(n, k) ==
    {s \in [0 .. (k - 1) -> 0 .. (n - 1)] :
        \A a, b \in 0 .. (k - 1) : a # b => s[a] # s[b]}

\* x[ind], numpy indexing with an index array: a new array
Take(x, index) == [k \in DOMAIN index |-> x[index[k]]]

MeanFn(name, x, param) ==
    IF name = "zero_mean" THEN zero_mean(x, param) ELSE constant_mean(x, param)

\* self-covariance detected by comparing values
kernel_by_value(x, y, param, pairwise) ==
    IF y = None \/ heap[y] = heap[x]
    THEN kernel_ii_or_tt(heap[x], param, pairwise)
    ELSE kernel_it(heap[x], heap[y], param, pairwise)

\* kernel(x, y, param, pairwise) on object ids: `y is x` is id equality
kernel(x, y, param, pairwise) ==
    IF y = x \/ y = None
    THEN kernel_ii_or_tt(heap[x], param, pairwise)
    ELSE kernel_it(heap[x], heap[y], param, pairwise)

\* ---------------------------------------------------------- linear algebra

Minor(M, j, n) ==
    [r \in 0 .. (n - 2) |-> [c \in 0 .. (n - 2) |->
        M[r + 1][IF c < j THEN c ELSE c + 1]]]

RECURSIVE Det(_, _)
RECURSIVE DetRow(_, _, _)
\* expansion along row 0, columns 0..j-1
DetRow(M, n, j) ==
    IF j = 0 THEN 0
    ELSE DetRow(M, n, j - 1)
         + (IF (j - 1) % 2 = 0 THEN 1 ELSE -1)
           * M[0][j - 1] * Det(Minor(M, j - 1, n), n - 1)
Det(M, n) == IF n = 0 THEN 1 ELSE IF n = 1 THEN M[0][0] ELSE DetRow(M, n, n)

ReplaceCol(M, j, b) ==
    [r \in DOMAIN M |-> [c \in DOMAIN M[r] |-> IF c = j THEN b[r] ELSE M[r][c]]]

\* ---------------------------------------------------------------- predict

Failure(e) == [err |-> e, zpm |-> EmptyArr, zpv |-> EmptyArr, ops |-> <<>>]

\* the kriging predictor: covariances, linear system, mean and variance
kriging_predictor(x, z, t) ==
        LET n   == Size(heap[x])
            m   == Size(heap[t])
            Kii == asarray(kernel(x, x, covparam, FALSE))
            Kit == asarray(kernel(x, t, covparam, FALSE))
            ktt == asarray(kernel(t, None, covparam, TRUE))
            Pi  == MeanFn(mean, heap[x], meanparam)
            Pt  == MeanFn(mean, heap[t], meanparam)
            q   == IF Pi.isNone THEN 0 ELSE Size(Pi.val[0])
            s   == n + q
            LHS == asarray([r \in 0 .. (s - 1) |-> [c \in 0 .. (s - 1) |->
                     IF r < n /\ c < n THEN Kii[r][c]
                     ELSE IF r < n THEN Pi.val[r][c - n]
                     ELSE IF c < n THEN Pi.val[c][r - n]
                     ELSE 0]])
            RHS == asarray([k \in 0 .. (m - 1) |-> [r \in 0 .. (s - 1) |->
                     IF r < n THEN Kit[r][k] ELSE Pt.val[k][r - n]]])
            D   == Det(LHS, s)
            \* Cramer: lambda_mu[k][j] / D is weight j of target k
            lambda_mu == asarray([k \in 0 .. (m - 1) |-> [j \in 0 .. (s - 1) |->
                     Det(asarray(ReplaceCol(LHS, j, RHS[k])), s)]])
        IN  IF D = 0
            THEN [Failure("SingularSystem") EXCEPT
                     !.ops = <<"kernel", "kernel", "factorize">>]
            ELSE [err |-> "none",
                  zpm |-> [k \in 0 .. (m - 1) |->
                     Rat(SumTo([j \in 0 .. (n - 1) |-> lambda_mu[k][j] * z[j]], n), D)],
                  zpv |-> [k \in 0 .. (m - 1) |->
                     Rat(ktt[k] * D
                         - SumTo([j \in 0 .. (s - 1) |-> lambda_mu[k][j] * RHS[k][j]], s),
                         D)],
                  ops |-> IF Pi.isNone
                          THEN <<"kernel", "kernel", "spd_solve", "kernel">>
                          ELSE <<"kernel", "kernel", "block_solve", "kernel">>]

\* the lengths compared only after the kernel evaluations
predict_late(x, z, t) ==
    IF Size(z) # Size(heap[x])
    THEN [Failure("DimensionMismatch") EXCEPT !.ops = <<"kernel", "kernel">>]
    ELSE kriging_predictor(x, z, t)

\* model.predict(xi, zi, xt) on object ids x, t and the vector z
predict(x, z, t) ==
    IF Size(z) # Size(heap[x])
    THEN Failure("DimensionMismatch")
    ELSE kriging_predictor(x, z, t)

\* np.minimum(v, 0) in place of np.maximum
minimum0(v) == [k \in DOMAIN v |-> IF RatLeq(v[k], <<0, 1>>) THEN v[k] ELSE <<0, 1>>]

\* np.maximum(v, 0), elementwise
maximum0(v) == [k \in DOMAIN v |-> IF RatLeq(v[k], RatInt(0)) THEN RatInt(0) ELSE v[k]]

\* ---------------------------------------------------------------- actions

NoCall == [fn |-> "none"]

Init ==
    /\ pc = "data"
    /\ heap = [o \in ObjIds |-> EmptyArr]
    /\ zt = EmptyArr
    /\ zi = EmptyArr
    /\ ind = EmptyArr
    /\ mean = "unset"
    /\ meanparam = "unset"
    /\ covparam = EmptyArr
    /\ ret = NoCall
    /\ pred = NoCall
    /\ zpm = EmptyArr
    /\ zpv = EmptyArr

\* xt, zt, xi, zi = generate_data(), with nt = n and ni = k
generate_data(n, k) ==
    /\ pc = "data"
    /\ \E index \in Choice(n, k) :
         LET grid == regulargrid(dim, n, <<-1, 1>>)
         IN  /\ zt' = twobumps(grid)
             /\ ind' = index
             /\ zi' = Take(twobumps(grid), index)
             /\ heap' = [o \in ObjIds |->
                           IF o = "xt" THEN grid ELSE Take(grid, index)]
    /\ pc' = "model"
    /\ UNCHANGED <<mean, meanparam, covparam, ret, pred, zpm, zpv>>

\* mean = constant_mean ... model = gp.core.Model(mean, kernel, meanparam, covparam)
BuildModel ==
    /\ pc = "model"
    /\ mean' = "constant_mean"
    /\ meanparam' = None
    /\ covparam' = [i \in 0 .. 1 |-> IF i = 0 THEN LogSigma2 ELSE LogInvRho]
    /\ pc' = "ready"
    /\ UNCHANGED <<heap, zt, zi, ind, ret, pred, zpm, zpv>>

Built == pc \in {"ready", "clamp", "done"}

\* a kernel that overwrites param[0] with sigma2
KernelCall_inplace(x, y, pairwise) ==
    /\ pc \in {"ready", "clamp", "done"}
    /\ (pairwise /\ y # None) => Size(heap[y]) = Size(heap[x])
    /\ ret' = [fn |-> "kernel", x |-> x, y |-> y, pairwise |-> pairwise,
               val |-> kernel(x, y, covparam, pairwise)]
    /\ covparam' = [covparam EXCEPT ![0] = Exp(covparam[0]) \div One]
    /\ UNCHANGED <<pc, heap, zt, zi, ind, mean, meanparam, pred, zpm, zpv>>

\* a call kernel(x, y, covparam, pairwise) by the predictor or any caller
KernelCall(x, y, pairwise) ==
    /\ Built
    /\ (pairwise /\ y # None) => Size(heap[y]) = Size(heap[x])
    /\ ret' = [fn |-> "kernel", x |-> x, y |-> y, pairwise |-> pairwise,
               val |-> kernel(x, y, covparam, pairwise)]
    /\ UNCHANGED <<pc, heap, zt, zi, ind, mean, meanparam, covparam, pred, zpm, zpv>>

\* a call mean(x, meanparam)
MeanCall(x) ==
    /\ Built
    /\ ret' = [fn |-> "mean", x |-> x, val |-> MeanFn(mean, heap[x], meanparam)]
    /\ UNCHANGED <<pc, heap, zt, zi, ind, mean, meanparam, covparam, pred, zpm, zpv>>

\* (zpm, zpv) = model.predict(x, z, t)
Predict(x, z, t) ==
    /\ pc \in {"ready", "done"}
    /\ \E r \in {predict(x, z, t)} :
           /\ pred' = [fn |-> "predict", x |-> x, z |-> z, t |-> t, val |-> r]
           /\ IF r.err = "none"
              THEN /\ zpm' = r.zpm
                   /\ zpv' = r.zpv
                   /\ pc' = "clamp"
              ELSE /\ UNCHANGED <<zpm, zpv>>
                   /\ pc' = "failed"
    /\ UNCHANGED <<heap, zt, zi, ind, mean, meanparam, covparam, ret>>

\* zpv = np.maximum(zpv, 0)
Clamp ==
    /\ pc = "clamp"
    /\ zpv' = maximum0(zpv)
    /\ pc' = "done"
    /\ UNCHANGED <<heap, zt, zi, ind, mean, meanparam, covparam, ret, pred, zpm>>

\* the script, its prediction requests and the calls the predictor makes
Next ==
    \/ generate_data(Nt, Ni)
    \/ BuildModel
    \/ \E y \in {"xi", "xt"} : KernelCall("xi", y, FALSE)
    \/ MeanCall("xi")
    \/ \E z \in {zi, zt}, t \in {"xt", "xi"} : Predict("xi", z, t)
    \/ Clamp

Spec == Init /\ [][Next]_vars

\* the kernel and the mean function called on every pair of point sets
NextKernel ==
    \/ generate_data(Nt, Ni)
    \/ BuildModel
    \/ \E x \in ObjIds, y \in ObjIds \cup {None}, pairwise \in BOOLEAN :
          KernelCall(x, y, pairwise)
    \/ \E x \in ObjIds : MeanCall(x)

SpecKernel == Init /\ [][NextKernel]_vars

\* data generation alone, with the script's ni
NextGen == generate_data(NtGen, ni)

SpecGen == Init /\ [][NextGen]_vars

\* ----------------------------------------------------------------- claims

IsKernelCall == ret.fn = "kernel"
IsSelfCall == IsKernelCall /\ (ret.y = ret.x \/ ret.y = None)
IsPredict == pred.fn = "predict"
Predicted == IsPredict /\ pred.val.err = "none"

\* C1: kernel(x, y, param, pairwise) returns what kernel_ii_or_tt(x, param,
\* pairwise) returns when y is the object x or None, and what
\* kernel_it(x, y, param, pairwise) returns for every other y.
C1_Dispatch ==
    IsKernelCall =>
        ret.val = IF ret.y = ret.x \/ ret.y = None
                  THEN kernel_ii_or_tt(heap[ret.x], covparam, ret.pairwise)
                  ELSE kernel_it(heap[ret.x], heap[ret.y], covparam, ret.pairwise)

\* a cross-covariance call on two objects with equal values, whose result
\* is not the self-covariance
C1_Witness ==
    /\ IsKernelCall /\ ret.x = "xi" /\ ret.y = "xc" /\ ~ret.pairwise
    /\ heap["xi"] = heap["xc"]
    /\ ret.val # kernel_ii_or_tt(heap["xi"], covparam, FALSE)

\* C2 as stated: the pairwise=True self-covariance vector is the diagonal of
\* the pairwise=False self-covariance matrix.
C2_Original ==
    (IsSelfCall /\ ret.pairwise) =>
        \A i \in DOMAIN ret.val :
            ret.val[i] = kernel_ii_or_tt(heap[ret.x], covparam, FALSE)[i][i]

\* C2 amended: the pairwise=True self-covariance vector has length n and its
\* element i is entry (i, i) of the pairwise=False matrix minus the nugget,
\* that is sigma2: the diagonal before the nugget is added.
C2_Amended ==
    (IsSelfCall /\ ret.pairwise) =>
        /\ DOMAIN ret.val = DOMAIN heap[ret.x]
        /\ \A i \in DOMAIN ret.val :
            /\ ret.val[i] = kernel_ii_or_tt(heap[ret.x], covparam, FALSE)[i][i] - nugget
            /\ ret.val[i] = Exp(covparam[0])

C2_Witness ==
    IsSelfCall /\ ret.pairwise /\ ret.x = "xt" /\ Size(ret.val) = Nt

\* C3: after the clamping step every element of zpv is the maximum of the
\* value predict returned and 0, hence >= 0, and predict raised no error
\* for a negative variance.
C3_Clamped ==
    pc = "done" =>
        /\ Predicted
        /\ DOMAIN zpv = DOMAIN pred.val.zpv
        /\ \A k \in DOMAIN zpv :
            /\ RatLeq(<<0, 1>>, zpv[k])
            /\ zpv[k] = IF pred.val.zpv[k][1] < 0 THEN <<0, 1>> ELSE pred.val.zpv[k]

\* a negative variance returned by predict and clamped to 0
C3_Witness ==
    /\ pc = "done"
    /\ \E k \in DOMAIN zpv : pred.val.zpv[k][1] < 0 /\ zpv[k] = <<0, 1>>
    /\ \E k \in DOMAIN zpv : zpv[k][1] >= 0

\* C4: the pairwise=False self-covariance matrix, nugget included, is
\* symmetric.
C4_Symmetric ==
    (IsSelfCall /\ ~ret.pairwise) =>
        \A i, j \in DOMAIN ret.val : ret.val[i][j] = ret.val[j][i]

C4_Witness ==
    /\ IsSelfCall /\ ~ret.pairwise /\ Size(ret.val) >= 2
    /\ ret.val[0][1] > 0
    /\ ret.val[0][0] = Exp(covparam[0]) + nugget

\* C5: once the model is built, no step changes mean, meanparam or
\* covparam, and a predict call with the arguments of the previous predict
\* call returns the same result.
C5_Immutable ==
    [][/\ pc \in {"ready", "clamp", "done", "failed"} =>
            /\ mean' = mean
            /\ meanparam' = meanparam
            /\ covparam' = covparam
       /\ (/\ IsPredict
           /\ pred'.fn = "predict"
           /\ pred'.x = pred.x /\ pred'.z = pred.z /\ pred'.t = pred.t) =>
            pred'.val = pred.val]_vars

\* a second round of the script: a prediction, kernel calls, and the model
\* as it was built
C5_Witness ==
    /\ pc = "done" /\ Predicted /\ ret.fn = "kernel"
    /\ mean = "constant_mean" /\ meanparam = None
    /\ covparam[0] = LogSigma2 /\ covparam[1] = LogInvRho

\* C6: predict(xi, zi, xt) with len(xi) # len(zi) fails with
\* DimensionMismatch before any kernel evaluation or linear solve.
C6_DimensionMismatch ==
    (IsPredict /\ Size(pred.z) # Size(heap[pred.x])) =>
        /\ pred.val.err = "DimensionMismatch"
        /\ pred.val.ops = <<>>
        /\ pc = "failed"

C6_Witness ==
    IsPredict /\ Size(pred.z) # Size(heap[pred.x]) /\ pc = "failed"

\* the tolerance of the interpolation property: the nugget
Tol == nugget

\* C7: predict(xi, zi, xi) returns zpm equal to zi and zpv equal to 0 at every
\* training point, within the tolerance.
C7_Interpolation ==
    (Predicted /\ pred.t = pred.x) =>
        \A k \in DOMAIN pred.z :
            LET m == pred.val.zpm[k]
                v == pred.val.zpv[k]
            IN  /\ One * Abs(m[1] - pred.z[k] * m[2]) <= Tol * m[2]
                /\ Abs(v[1]) <= Tol * v[2]

C7_Witness ==
    /\ Predicted /\ pred.t = pred.x
    /\ \E k \in DOMAIN pred.z : pred.z[k] # 0 /\ pred.val.zpm[k] = <<pred.z[k], 1>>
    /\ \E k \in DOMAIN pred.z : pred.val.zpv[k] = <<-nugget, 1>>
    /\ \E j, k \in DOMAIN pred.z : pred.z[j] # pred.z[k]

\* C8: the mean function of the model is constant_mean, which returns an
\* n x 1 matrix of ones for a point set of n points, and the predictor then
\* solves the block system of the unknown-constant-mean case.
C8_OrdinaryKriging ==
    pc \in {"ready", "clamp", "done", "failed"} =>
        /\ mean = "constant_mean"
        /\ ret.fn = "mean" =>
            /\ ~ret.val.isNone
            /\ ret.val.val = [i \in 0 .. (Size(heap[ret.x]) - 1) |-> [j \in {0} |-> One]]
        /\ Predicted =>
            pred.val.ops = <<"kernel", "kernel", "block_solve", "kernel">>

C8_Witness ==
    /\ ret.fn = "mean" /\ Size(ret.val.val) = Ni
    /\ Predicted /\ pred.val.ops[3] = "block_solve"

\* the covariance of the points a and b, without nugget
Cov(a, b) ==
    Mul(Exp(covparam[0]),
        maternp(p, Abs(Mul(a, Exp(covparam[1])) - Mul(b, Exp(covparam[1])))))

\* C9: for y a distinct object with the values of x, kernel(x, y, param)
\* differs from kernel(x, x, param) by the nugget on the diagonal and nowhere
\* else; the nugget is in the pairwise=False self-covariance matrix and in
\* no other kernel result.
C9_IdentityOnly ==
    IsKernelCall =>
        LET x == heap[ret.x]
            y == IF ret.y = None THEN x ELSE heap[ret.y]
            K == kernel(ret.x, ret.x, covparam, FALSE)
        IN  /\ (~IsSelfCall /\ ~ret.pairwise /\ y = x) =>
                \A i, j \in DOMAIN x :
                    K[i][j] - ret.val[i][j] = IF i = j THEN nugget ELSE 0
            /\ (IsSelfCall /\ ~ret.pairwise) =>
                \A i, j \in DOMAIN x :
                    ret.val[i][j] = Cov(x[i], x[j]) + IF i = j THEN nugget ELSE 0
            /\ (~IsSelfCall /\ ~ret.pairwise) =>
                \A i \in DOMAIN x, j \in DOMAIN y : ret.val[i][j] = Cov(x[i], y[j])
            /\ ret.pairwise =>
                \A i \in DOMAIN x : ret.val[i] = Cov(x[i], y[i])

C9_Witness ==
    /\ IsKernelCall /\ ret.x = "xi" /\ ret.y = "xc" /\ ~ret.pairwise
    /\ heap["xc"] = heap["xi"]
    /\ ret.val[0][0] = Exp(covparam[0])
    /\ kernel("xi", "xi", covparam, FALSE)[0][0] = Exp(covparam[0]) + nugget

\* C10: generate_data returns ni = 5 observations at pairwise distinct grid
\* indices: |xi| = |zi| = ni, every index is in 0..nt-1, xi[k] = xt[ind[k]]
\* and zi[k] = zt[ind[k]], and no training point is duplicated.
C10_Observations ==
    pc # "data" =>
        /\ DOMAIN heap["xi"] = 0 .. (ni - 1)
        /\ DOMAIN zi = 0 .. (ni - 1)
        /\ DOMAIN ind = 0 .. (ni - 1)
        /\ \A k \in DOMAIN ind :
            /\ ind[k] \in DOMAIN heap["xt"]
            /\ ind[k] \in 0 .. (NtGen - 1)
            /\ heap["xi"][k] = heap["xt"][ind[k]]
            /\ zi[k] = zt[ind[k]]
        /\ \A a, b \in DOMAIN ind :
            a # b => (ind[a] # ind[b] /\ heap["xi"][a] # heap["xi"][b])

\* a draw that is not in increasing order
C10_Witness ==
    pc = "model" /\ Size(heap["xi"]) = ni /\ ind[0] > ind[1] /\ zi[0] # zi[1]

====
